---- MODULE Spec2Model ----
(***************************************************************************)
(* The controller service of the PowerVS block CSI driver                  *)
(* (pkg/driver/controller.go) over a disk store (the cloud.Cloud            *)
(* interface).  Every handler is a sequence of remote calls; a handler's    *)
(* steps between two remote calls are local and are folded into the step   *)
(* of the remote call that follows them.  Several handlers may run at the  *)
(* same time, one per process; the disk store answers one call at a time.  *)
(* The module also holds TokenizeProviderID (pkg/cloud/metadata.go), which  *)
(* the driver applies to the provider ID of its node at startup.           *)
(***************************************************************************)
EXTENDS Integers, Sequences, FiniteSets, TLC

\* ------------------------------------------------------------------------
\* Bounds of the model
\* ------------------------------------------------------------------------
\* largest requiredBytes / limitBytes a capacity range carries
MaxBytes == 3
\* number of volume IDs the disk store can assign
MaxDisks == 2
\* longest capability list of a request
MaxCaps == 2
\* longest provider ID, in characters
MaxIDLen == 10

\* ------------------------------------------------------------------------
\* Values
\* ------------------------------------------------------------------------
Procs == {"p1", "p2"}

\* compute instances known to the disk store, and the node IDs of requests
\* ("" is the absent node ID, "nx" names no instance)
Instances == {"n1", "n2"}
NodeIDs == {"", "n1", "n2", "nx"}

\* volume IDs of requests: 0 is the empty string
VolumeIDs == 0..MaxDisks

\* volume names of requests ("" is the absent name)
VolNames == {"", "a"}

SINGLE_NODE_WRITER == "SINGLE_NODE_WRITER"
MULTI_NODE_MULTI_WRITER == "MULTI_NODE_MULTI_WRITER"
AccessModes == {SINGLE_NODE_WRITER, MULTI_NODE_MULTI_WRITER}

\* controller.go:33  the supported access modes
volumeCaps == {SINGLE_NODE_WRITER}

\* the key of the volume type parameter (pkg/driver, constants)
VolumeTypeKey == "type"

\* one allocation unit of the provider, in bytes (pkg/util)
GiB == 2

\* cloud.DefaultVolumeSize (pkg/cloud), a whole number of allocation units
DefaultVolumeSize == 2 * GiB

\* util.RoundUpBytes: the smallest multiple of GiB that is >= bytes
RoundUpBytes(bytes) == ((bytes + GiB - 1) \div GiB) * GiB

\* util.BytesToGiB as the disk store uses it: allocation units, rounded up
BytesToGiB(bytes) == (bytes + GiB - 1) \div GiB

\* util.GiBToBytes
GiBToBytes(gib) == gib * GiB

\* strings.ToLower on the parameter keys of the model
ToLower(key) ==
    CASE key = "Type" -> "type"
      [] key = "TYPE" -> "type"
      [] key = "fsType" -> "fstype"
      [] OTHER -> key

\* gRPC status codes
OK == "OK"
InvalidArgument == "InvalidArgument"
NotFound == "NotFound"
AlreadyExists == "AlreadyExists"
Internal == "Internal"

\* errors of package cloud; ErrOther is any error that is none of the
\* sentinels
ErrNil == "nil"
ErrNotFound == "ErrNotFound"
ErrIdempotentParameterMismatch == "ErrIdempotentParameterMismatch"
ErrAlreadyExists == "ErrAlreadyExists"
ErrOther == "ErrOther"

\* ------------------------------------------------------------------------
\* Pure helpers of the controller
\* ------------------------------------------------------------------------
\* isValidVolumeCapabilities that is content with one supported capability
isValidVolumeCapabilities_Any(volCaps) ==
    LET hasSupport(cap) == \E c \in volumeCaps : c = cap
    IN  \E i \in 1..Len(volCaps) : hasSupport(volCaps[i])

\* controller.go:331  every requested capability has a supported access mode
isValidVolumeCapabilities(volCaps) ==
    LET hasSupport(cap) == \E c \in volumeCaps : c = cap
    IN  \A i \in 1..Len(volCaps) : hasSupport(volCaps[i])

\* getVolSizeBytes without the rounding up
getVolSizeBytes_NoRoundUp(req) ==
    IF ~req.hasRange
    THEN [err |-> OK, bytes |-> DefaultVolumeSize]
    ELSE LET volSizeBytes == req.required
             maxVolSize == req.limit
         IN  IF maxVolSize > 0 /\ maxVolSize < volSizeBytes
             THEN [err |-> InvalidArgument, bytes |-> 0]
             ELSE [err |-> OK, bytes |-> volSizeBytes]

\* controller.go:378  the size CreateVolume asks the disk store for
getVolSizeBytes(req) ==
    IF ~req.hasRange
    THEN [err |-> OK, bytes |-> DefaultVolumeSize]
    ELSE LET volSizeBytes == RoundUpBytes(req.required)
             maxVolSize == req.limit
         IN  IF maxVolSize > 0 /\ maxVolSize < volSizeBytes
             THEN [err |-> InvalidArgument, bytes |-> 0]
             ELSE [err |-> OK, bytes |-> volSizeBytes]

\* controller.go:101-110  the loop over the request's parameters; a Go map
\* is visited in no fixed order, so the value of the last visited key that
\* lowers to "type" is any of them; a key that lowers to anything else is
\* reached in every order and fails the request
ParseParameters(params) ==
    IF \E kv \in params : ToLower(kv[1]) # VolumeTypeKey
    THEN {[err |-> InvalidArgument, volumeType |-> ""]}
    ELSE IF params = {}
         THEN {[err |-> OK, volumeType |-> ""]}
         ELSE {[err |-> OK, volumeType |-> kv[2]] : kv \in params}

\* ------------------------------------------------------------------------
\* The provider ID of the node (pkg/cloud/metadata.go).  A string is the
\* sequence of its characters.
\* ------------------------------------------------------------------------
\* the characters of the provider IDs of the model
Chars == {"/", "a", "b"}

\* metadata.go:29
ProviderIDValidLength == 6

\* strings.Split(s, sep) for a separator of one character: the substrings
\* of s between the separators, one more than there are separators
RECURSIVE Split(_, _)
Split(s, sep) ==
    IF s = <<>> THEN << <<>> >>
    ELSE LET rest == Split(Tail(s), sep)
         IN  IF Head(s) = sep
             THEN << <<>> >> \o rest
             ELSE << <<Head(s)>> \o Head(rest) >> \o Tail(rest)

\* metadata.go:33  Metadata
Metadata(region, zone, cloudInstanceId, pvmInstanceId) ==
    [region |-> region, zone |-> zone, cloudInstanceId |-> cloudInstanceId,
     pvmInstanceId |-> pvmInstanceId]

\* TokenizeProviderID without the check of the zone
TokenizeProviderID_NoZoneCheck(providerIDArg) ==
    LET parts == Split(providerIDArg, "/")
        data(i) == parts[i + 1]
    IN  IF Len(parts) # ProviderIDValidLength
        THEN [metadata |-> {}, err |-> "invalid length"]
        ELSE IF data(2) = <<>>
        THEN [metadata |-> {}, err |-> "region can't be empty"]
        ELSE IF data(4) = <<>>
        THEN [metadata |-> {}, err |-> "service_instance_id can't be empty"]
        ELSE IF data(5) = <<>>
        THEN [metadata |-> {}, err |-> "powervs_machine_id can't be empty"]
        ELSE [metadata |-> {Metadata(data(2), data(3), data(4), data(5))},
              err |-> "nil"]

\* metadata.go:62-86  TokenizeProviderID: the pointer it returns is the set
\* of the Metadata it points to (nil is the empty set), with the error;
\* data(i) is data[i] of the code, whose indexes start at 0
TokenizeProviderID(providerIDArg) ==
    LET parts == Split(providerIDArg, "/")
        data(i) == parts[i + 1]
    IN  IF Len(parts) # ProviderIDValidLength
        THEN [metadata |-> {}, err |-> "invalid length"]
        ELSE IF data(2) = <<>>
        THEN [metadata |-> {}, err |-> "region can't be empty"]
        ELSE IF data(3) = <<>>
        THEN [metadata |-> {}, err |-> "zone can't be empty"]
        ELSE IF data(4) = <<>>
        THEN [metadata |-> {}, err |-> "service_instance_id can't be empty"]
        ELSE IF data(5) = <<>>
        THEN [metadata |-> {}, err |-> "powervs_machine_id can't be empty"]
        ELSE [metadata |-> {Metadata(data(2), data(3), data(4), data(5))},
              err |-> "nil"]

\* no call of TokenizeProviderID yet
NotTokenized == [called |-> FALSE, metadata |-> {}, err |-> "nil"]

\* ------------------------------------------------------------------------
\* The disk store (cloud.Cloud).  Each operation is the set of answers the
\* store may give in a store state; fault marks an answer that reports a
\* failure of the remote call itself, which changes nothing.
\* ------------------------------------------------------------------------
NoDisk == [id |-> 0, name |-> "", capGiB |-> 0, type |-> ""]

\* Disk.WWN of the disk with this ID
WWN(id) == 100 + id

DisksByID(ds, id) == {d \in ds : d.id = id}
DisksByName(ds, name) == {d \in ds : d.name = name}

\* create-disk(name, sizeBytes, type): idempotent by name; a create of a
\* name the store holds may also fail with a conflict, whatever its
\* parameters
CreateDisk(ds, next, name, bytes, type) ==
    {[err |-> e, fault |-> TRUE, disk |-> NoDisk, disks |-> ds, nextId |-> next]
        : e \in {ErrOther, ErrNotFound}}
    \cup
    {[err |-> ErrAlreadyExists, fault |-> TRUE, disk |-> NoDisk, disks |-> ds,
      nextId |-> next] : d \in DisksByName(ds, name)}
    \cup
    (IF DisksByName(ds, name) # {}
     THEN {IF GiBToBytes(d.capGiB) = bytes /\ d.type = type
           THEN [err |-> ErrNil, fault |-> FALSE, disk |-> d,
                 disks |-> ds, nextId |-> next]
           ELSE [err |-> ErrIdempotentParameterMismatch, fault |-> FALSE,
                 disk |-> NoDisk, disks |-> ds, nextId |-> next]
            : d \in DisksByName(ds, name)}
     ELSE IF next <= MaxDisks
          THEN LET d == [id |-> next, name |-> name,
                         capGiB |-> BytesToGiB(bytes), type |-> type]
               IN  {[err |-> ErrNil, fault |-> FALSE, disk |-> d,
                     disks |-> ds \cup {d}, nextId |-> next + 1]}
          ELSE {})

\* get-disk-by-id(id)
GetDiskByID(ds, id) ==
    {[err |-> ErrOther, fault |-> TRUE, disk |-> NoDisk]}
    \cup
    (IF DisksByID(ds, id) # {}
     THEN {[err |-> ErrNil, fault |-> FALSE, disk |-> d] : d \in DisksByID(ds, id)}
     ELSE {[err |-> ErrNotFound, fault |-> FALSE, disk |-> NoDisk]})

\* get-instance-by-id(id)
GetPVMInstanceByID(node) ==
    {[err |-> ErrOther, fault |-> TRUE]}
    \cup
    (IF node \in Instances
     THEN {[err |-> ErrNil, fault |-> FALSE]}
     ELSE {[err |-> ErrNotFound, fault |-> FALSE]})

\* is-attached(diskID, instanceID): a failed query answers false with an error
IsAttached(att, id, node) ==
    {[attached |-> FALSE, err |-> ErrOther, fault |-> TRUE]}
    \cup
    {[attached |-> (<<id, node>> \in att), err |-> ErrNil, fault |-> FALSE]}

\* attach-disk that attaches a disk attached to another instance as well
AttachDisk_Shared(ds, att, id, node) ==
    {[err |-> ErrOther, fault |-> TRUE, attached |-> att]}
    \cup
    (IF DisksByID(ds, id) = {} \/ node \notin Instances
     THEN {[err |-> ErrNotFound, fault |-> FALSE, attached |-> att]}
     ELSE {[err |-> ErrNil, fault |-> FALSE, attached |-> att \cup {<<id, node>>}]})

\* attach-disk(diskID, instanceID): refuses a disk attached to another
\* instance; what it answers for a pair that is attached already is open
AttachDisk(ds, att, id, node) ==
    {[err |-> ErrOther, fault |-> TRUE, attached |-> att]}
    \cup
    (IF DisksByID(ds, id) = {} \/ node \notin Instances
     THEN {[err |-> ErrNotFound, fault |-> FALSE, attached |-> att]}
     ELSE IF \E n \in Instances : n # node /\ <<id, n>> \in att
          THEN {[err |-> ErrAlreadyExists, fault |-> FALSE, attached |-> att]}
          ELSE IF <<id, node>> \in att
               THEN {[err |-> e, fault |-> FALSE, attached |-> att]
                        : e \in {ErrNil, ErrAlreadyExists}}
               ELSE {[err |-> ErrNil, fault |-> FALSE,
                      attached |-> att \cup {<<id, node>>}]})

\* detach-disk(diskID, instanceID): what it answers for a pair that is not
\* attached is open
DetachDisk(att, id, node) ==
    {[err |-> ErrOther, fault |-> TRUE, attached |-> att]}
    \cup
    (IF <<id, node>> \in att
     THEN {[err |-> ErrNil, fault |-> FALSE, attached |-> att \ {<<id, node>>}]}
     ELSE {[err |-> e, fault |-> FALSE, attached |-> att] : e \in {ErrNil, ErrOther}})

\* delete-disk(id): deleting a disk ends its attachment
DeleteDisk(ds, att, id) ==
    {[err |-> ErrOther, fault |-> TRUE, disks |-> ds, attached |-> att]}
    \cup
    (IF DisksByID(ds, id) = {}
     THEN {[err |-> ErrNotFound, fault |-> FALSE, disks |-> ds, attached |-> att]}
     ELSE {[err |-> ErrNil, fault |-> FALSE,
            disks |-> ds \ DisksByID(ds, id),
            attached |-> {a \in att : a[1] # id}]})

\* resize-disk that sets the size asked for, whatever the size of the disk
ResizeDisk_Shrinks(ds, id, newBytes) ==
    {[err |-> ErrOther, fault |-> TRUE, gib |-> 0, disks |-> ds]}
    \cup
    (IF DisksByID(ds, id) = {}
     THEN {[err |-> ErrNotFound, fault |-> FALSE, gib |-> 0, disks |-> ds]}
     ELSE {[err |-> ErrNil, fault |-> FALSE, gib |-> BytesToGiB(newBytes),
            disks |-> (ds \ {d}) \cup {[d EXCEPT !.capGiB = BytesToGiB(newBytes)]}]
              : d \in DisksByID(ds, id)})

\* resize-disk(id, newSizeBytes): grows the disk; asked for less than the
\* disk has, it either refuses or answers the size the disk has
ResizeDisk(ds, id, newBytes) ==
    {[err |-> ErrOther, fault |-> TRUE, gib |-> 0, disks |-> ds]}
    \cup
    (IF DisksByID(ds, id) = {}
     THEN {[err |-> ErrNotFound, fault |-> FALSE, gib |-> 0, disks |-> ds]}
     ELSE UNION {
            IF BytesToGiB(newBytes) >= d.capGiB
            THEN {[err |-> ErrNil, fault |-> FALSE, gib |-> BytesToGiB(newBytes),
                   disks |-> (ds \ {d}) \cup {[d EXCEPT !.capGiB = BytesToGiB(newBytes)]}]}
            ELSE {[err |-> ErrOther, fault |-> FALSE, gib |-> 0, disks |-> ds],
                  [err |-> ErrNil, fault |-> FALSE, gib |-> d.capGiB, disks |-> ds]}
            : d \in DisksByID(ds, id)})

\* ------------------------------------------------------------------------
\* Requests, responses and the state
\* ------------------------------------------------------------------------
\* one record shape for the requests of all operations; an operation reads
\* its own fields only.  hasRange: the capacity range is present; caps: the
\* capability list (for ControllerPublishVolume the one capability, or
\* none); params: the parameter map as a set of <<key, value>>
NoReq == [name |-> "", hasRange |-> FALSE, required |-> 0, limit |-> 0,
          caps |-> <<>>, params |-> {}, volumeId |-> 0, nodeId |-> ""]

\* one record shape for the responses: the status code and the fields of
\* the response of each operation
NoRet == [code |-> "none", volumeId |-> 0, capacityBytes |-> 0, wwn |-> 0,
          hasConfirmed |-> FALSE, confirmed |-> <<>>,
          nodeExpansionRequired |-> FALSE]

Status(code) == [NoRet EXCEPT !.code = code]

\* the locals a handler keeps across its remote calls
NoLoc == [volSizeBytes |-> 0, volumeType |-> "", wwn |-> 0]

\* one entry of the log of remote calls a handler has made
Call(fn, name, id, node, bytes, type, o) ==
    [fn |-> fn, name |-> name, id |-> id, node |-> node, bytes |-> bytes,
     type |-> type, err |-> o.err, fault |-> o.fault]

NoPrev == [op |-> "none", req |-> NoReq, ret |-> NoRet, calls |-> <<>>]

VARIABLES
    disks,      \* the disks of the disk store
    attached,   \* the attachments of the disk store: <<disk ID, instance>>
    nextId,     \* the next volume ID the disk store assigns
    active,     \* the processes that call the controller
    pc,         \* per process: "idle", "done" (its call has returned), or
                \* the remote call it makes next
    op,         \* per process: the operation of its current or last call
    req,        \* per process: the request of that call
    loc,        \* per process: the handler's locals
    calls,      \* per process: the remote calls of that call, in order
    ret,        \* per process: the response of its last call
    prev,       \* per process: the call that returned right before this
                \* one began, if any (history)
    overlaps,   \* per process: the processes a call of which ran while its
                \* current or last call ran (history)
    providerID, \* the provider ID of the node the driver runs on
    tokenized   \* what TokenizeProviderID has returned for it

vars == <<disks, attached, nextId, active, pc, op, req, loc, calls, ret, prev,
          overlaps, providerID, tokenized>>

startup == <<providerID, tokenized>>

store == <<disks, attached, nextId>>

CapLists(n) == UNION {[1..k -> AccessModes] : k \in 0..n}

CapacityRanges ==
    {[hasRange |-> FALSE, required |-> 0, limit |-> 0]}
    \cup {[hasRange |-> TRUE, required |-> r, limit |-> l]
            : r \in 0..MaxBytes, l \in 0..MaxBytes}

ParameterMaps ==
    { {},
      {<<"type", "tier1">>},
      {<<"Type", "tier3">>},
      {<<"fsType", "ext4">>},
      {<<"type", "tier1">>, <<"fsType", "ext4">>},
      {<<"type", "tier1">>, <<"TYPE", "tier3">>} }

\* the requests a lone caller makes.  Those of CreateVolume: every name,
\* capacity range and parameter map with the supported capability, and every
\* capability list with every name and no range or parameter
CreateReqs ==
    {[NoReq EXCEPT !.name = n, !.hasRange = c.hasRange, !.required = c.required,
                   !.limit = c.limit, !.caps = <<SINGLE_NODE_WRITER>>, !.params = ps]
        : n \in VolNames, c \in CapacityRanges, ps \in ParameterMaps}
    \cup
    {[NoReq EXCEPT !.name = n, !.caps = cs] : n \in VolNames, cs \in CapLists(MaxCaps)}
DeleteReqs == {[NoReq EXCEPT !.volumeId = v] : v \in VolumeIDs}
PublishReqs ==
    {[NoReq EXCEPT !.volumeId = v, !.nodeId = n, !.caps = cs]
        : v \in VolumeIDs, n \in NodeIDs, cs \in CapLists(1)}
UnpublishReqs ==
    {[NoReq EXCEPT !.volumeId = v, !.nodeId = n] : v \in VolumeIDs, n \in NodeIDs}
ValidateReqs ==
    {[NoReq EXCEPT !.volumeId = v, !.caps = cs]
        : v \in VolumeIDs, cs \in CapLists(MaxCaps)}
ExpandReqs ==
    {[NoReq EXCEPT !.volumeId = v, !.hasRange = c.hasRange,
                   !.required = c.required, !.limit = c.limit]
        : v \in VolumeIDs, c \in CapacityRanges}

\* the valid requests concurrent callers make
IsPlain(r) ==
    /\ r.name \in {"", "a"}
    /\ r.nodeId \in {"", "n1", "n2"}
    /\ r.caps \in {<<>>, <<SINGLE_NODE_WRITER>>}
    /\ r.params \in {{}, {<<"type", "tier1">>}}
    /\ r.hasRange => (r.required = MaxBytes /\ r.limit = 0)

Requests(rs) == IF Cardinality(active) = 1 THEN rs ELSE {r \in rs : IsPlain(r)}

\* the requests of operation o that may arrive at process p: any request
\* when it is idle; when its last call has returned and no other process
\* runs, that call again, or after an unpublish a publish of the volume
Arrivals(p, o, rs) ==
    IF p \notin active THEN {}
    ELSE IF pc[p] = "idle" THEN Requests(rs)
    ELSE IF pc[p] = "done" /\ active = {p}
    THEN (IF op[p] = o THEN {req[p]} ELSE {})
         \cup
         (IF op[p] = "ControllerUnpublishVolume" /\ o = "ControllerPublishVolume"
          THEN {r \in rs : r.volumeId = req[p].volumeId}
          ELSE {})
    ELSE {}

\* ------------------------------------------------------------------------
\* The handlers' local steps
\* ------------------------------------------------------------------------
\* controller.go:79-116  CreateVolume up to the remote call: the status it
\* returns early, or OK with the options of the create-disk call
CreateVolumeChecks(r) ==
    IF Len(r.name) = 0 THEN {[code |-> InvalidArgument, loc |-> NoLoc]}
    ELSE IF getVolSizeBytes(r).err # OK
    THEN {[code |-> getVolSizeBytes(r).err, loc |-> NoLoc]}
    ELSE IF Len(r.caps) = 0 THEN {[code |-> InvalidArgument, loc |-> NoLoc]}
    ELSE IF ~isValidVolumeCapabilities(r.caps)
    THEN {[code |-> InvalidArgument, loc |-> NoLoc]}
    ELSE {IF po.err # OK
          THEN [code |-> po.err, loc |-> NoLoc]
          ELSE [code |-> OK,
                loc |-> [NoLoc EXCEPT !.volSizeBytes = getVolSizeBytes(r).bytes,
                                      !.volumeType = po.volumeType]]
            : po \in ParseParameters(r.params)}

\* CreateDiskErrCode without the case of the parameter mismatch
CreateDiskErrCode_NoMismatch(err) ==
    IF err = ErrNotFound THEN NotFound ELSE Internal

\* controller.go:119-127  the status of a failed create-disk call
CreateDiskErrCode(err) ==
    IF err = ErrIdempotentParameterMismatch THEN AlreadyExists
    ELSE IF err = ErrNotFound THEN NotFound
    ELSE Internal

\* controller.go:365  newCreateVolumeResponse
newCreateVolumeResponse(disk) ==
    [Status(OK) EXCEPT !.volumeId = disk.id,
                       !.capacityBytes = GiBToBytes(disk.capGiB)]

\* controller.go:134-137  DeleteVolume up to the first remote call
DeleteVolumeChecks(r) ==
    IF r.volumeId = 0 THEN InvalidArgument ELSE OK

\* controller.go:155-176  ControllerPublishVolume up to the first remote call
ControllerPublishVolumeChecks(r) ==
    IF r.volumeId = 0 THEN InvalidArgument
    ELSE IF Len(r.nodeId) = 0 THEN InvalidArgument
    ELSE IF Len(r.caps) = 0 THEN InvalidArgument
    ELSE IF ~isValidVolumeCapabilities(r.caps) THEN InvalidArgument
    ELSE OK

\* controller.go:213-221  ControllerUnpublishVolume up to the first remote call
ControllerUnpublishVolumeChecks(r) ==
    IF r.volumeId = 0 THEN InvalidArgument
    ELSE IF Len(r.nodeId) = 0 THEN InvalidArgument
    ELSE OK

\* controller.go:271-279  ValidateVolumeCapabilities up to the remote call
ValidateVolumeCapabilitiesChecks(r) ==
    IF r.volumeId = 0 THEN InvalidArgument
    ELSE IF Len(r.caps) = 0 THEN InvalidArgument
    ELSE OK

\* ControllerExpandVolumeChecks without the check of the limit
ControllerExpandVolumeChecks_NoLimit(r) ==
    IF r.volumeId = 0 THEN [code |-> InvalidArgument, loc |-> NoLoc]
    ELSE IF ~r.hasRange THEN [code |-> InvalidArgument, loc |-> NoLoc]
    ELSE [code |-> OK, loc |-> [NoLoc EXCEPT !.volSizeBytes = RoundUpBytes(r.required)]]

\* controller.go:299-313  ControllerExpandVolume up to the remote call: the
\* status it returns early, or OK with the new size
ControllerExpandVolumeChecks(r) ==
    IF r.volumeId = 0 THEN [code |-> InvalidArgument, loc |-> NoLoc]
    ELSE IF ~r.hasRange THEN [code |-> InvalidArgument, loc |-> NoLoc]
    ELSE LET newSize == RoundUpBytes(r.required)
             maxVolSize == r.limit
         IN  IF maxVolSize > 0 /\ maxVolSize < newSize
             THEN [code |-> InvalidArgument, loc |-> NoLoc]
             ELSE [code |-> OK, loc |-> [NoLoc EXCEPT !.volSizeBytes = newSize]]

\* ControllerExpandVolumeResponse that reports the allocation units as bytes
ControllerExpandVolumeResponse_Units(actualSizeGiB) ==
    [Status(OK) EXCEPT !.capacityBytes = actualSizeGiB,
                       !.nodeExpansionRequired = TRUE]

\* controller.go:320-323  the response of a ControllerExpandVolume whose
\* resize-disk call answered actualSizeGiB
ControllerExpandVolumeResponse(actualSizeGiB) ==
    [Status(OK) EXCEPT !.capacityBytes = GiBToBytes(actualSizeGiB),
                       !.nodeExpansionRequired = TRUE]

\* DeleteVolumeNotFound that never sees the volume gone
DeleteVolumeNotFound_Never(o) == FALSE

\* controller.go:139-140  DeleteVolume: the existence query answers not-found
DeleteVolumeNotFound(o) == o.err # ErrNil /\ o.err = ErrNotFound

\* PublishGetDiskErrCode that takes every failure for an internal one
PublishGetDiskErrCode_AllInternal(err) == Internal

\* controller.go:184-189  ControllerPublishVolume: the status of a failed
\* get-disk-by-id call
PublishGetDiskErrCode(err) ==
    IF err = ErrNotFound THEN NotFound ELSE Internal

\* PublishAttached that does not look at the answer
PublishAttached_Never(o) == FALSE

\* controller.go:193-194  ControllerPublishVolume: the volume is attached to
\* the node already; the error of the query is not looked at
PublishAttached(o) == o.attached

\* AttachDiskErrCode without the case of the conflict
AttachDiskErrCode_NoConflict(err) == Internal

\* controller.go:200-204  the status of a failed attach-disk call
AttachDiskErrCode(err) ==
    IF err = ErrAlreadyExists THEN AlreadyExists ELSE Internal

\* controller.go:223-224  ControllerUnpublishVolume: the existence query
\* answers not-found
UnpublishVolumeNotFound(o) == o.err # ErrNil /\ o.err = ErrNotFound

\* UnpublishNotAttached that goes on to detach whatever the answer
UnpublishNotAttached_Never(o) == FALSE

\* UnpublishNotAttached that takes a failed query for an attached volume
UnpublishNotAttached_ErrFirst(o) == o.err = ErrNil /\ ~o.attached

\* UnpublishNotAttached that takes every volume for not attached
UnpublishNotAttached_Always(o) == TRUE

\* controller.go:230  ControllerUnpublishVolume: the volume is not attached
\* to the node; the error of the query is not looked at
UnpublishNotAttached(o) == ~o.attached

\* ------------------------------------------------------------------------
\* Steps
\* ------------------------------------------------------------------------
\* the processes a call of which is running
Running == {q \in Procs : pc[q] \notin {"idle", "done"}}

\* a call of operation o with request r arrives at process p; its checks
\* answer code and leave the locals l; it returns at once unless code is OK,
\* and then its first remote call is first
Enter(p, o, r, code, l, first) ==
    /\ p \in active
    /\ pc[p] \in {"idle", "done"}
    /\ op' = [op EXCEPT ![p] = o]
    /\ req' = [req EXCEPT ![p] = r]
    /\ loc' = [loc EXCEPT ![p] = l]
    /\ calls' = [calls EXCEPT ![p] = <<>>]
    /\ prev' = [prev EXCEPT ![p] =
                  IF pc[p] = "done"
                  THEN [op |-> op[p], req |-> req[p], ret |-> ret[p],
                        calls |-> calls[p]]
                  ELSE NoPrev]
    /\ overlaps' = [q \in Procs |->
                       IF q = p THEN Running \ {p}
                       ELSE IF q \in Running THEN overlaps[q] \cup {p}
                       ELSE overlaps[q] \ {p}]
    /\ pc' = [pc EXCEPT ![p] = IF code = OK THEN first ELSE "done"]
    /\ ret' = [ret EXCEPT ![p] = IF code = OK THEN NoRet ELSE Status(code)]
    /\ UNCHANGED <<store, active, startup>>

\* process p is about to make the remote call fn of operation o
At(p, o, fn) == p \in active /\ op[p] = o /\ pc[p] = fn

Log(p, c) == calls' = [calls EXCEPT ![p] = Append(@, c)]
Return(p, r) == pc' = [pc EXCEPT ![p] = "done"] /\ ret' = [ret EXCEPT ![p] = r]

\* Goto that makes the call just made again
Goto_Retry(p, fn) == pc' = pc /\ UNCHANGED ret

Goto(p, fn) == pc' = [pc EXCEPT ![p] = fn] /\ UNCHANGED ret

\* the caller of process p moves on: the call that has returned is history
Forget(p) ==
    /\ p \in active
    /\ pc[p] = "done"
    /\ pc' = [pc EXCEPT ![p] = "idle"]
    /\ op' = [op EXCEPT ![p] = "none"]
    /\ req' = [req EXCEPT ![p] = NoReq]
    /\ loc' = [loc EXCEPT ![p] = NoLoc]
    /\ calls' = [calls EXCEPT ![p] = <<>>]
    /\ ret' = [ret EXCEPT ![p] = NoRet]
    /\ prev' = [prev EXCEPT ![p] = NoPrev]
    /\ overlaps' = [q \in Procs |-> IF q = p THEN {} ELSE overlaps[q] \ {p}]
    /\ UNCHANGED <<store, active, startup>>

\* controller.go:77  CreateVolume
CreateVolume(p, r) ==
    \E c \in CreateVolumeChecks(r) :
        Enter(p, "CreateVolume", r, c.code, c.loc, "CreateDisk")

\* controller.go:118-129
CreateVolume_CreateDisk(p) ==
    /\ At(p, "CreateVolume", "CreateDisk")
    /\ \E o \in CreateDisk(disks, nextId, req[p].name, loc[p].volSizeBytes,
                           loc[p].volumeType) :
        /\ disks' = o.disks
        /\ nextId' = o.nextId
        /\ Log(p, Call("CreateDisk", req[p].name, 0, "", loc[p].volSizeBytes,
                       loc[p].volumeType, o))
        /\ IF o.err # ErrNil
           THEN Return(p, Status(CreateDiskErrCode(o.err)))
           ELSE Return(p, newCreateVolumeResponse(o.disk))
    /\ UNCHANGED <<attached, active, op, req, loc, prev, overlaps, startup>>

\* controller.go:132  DeleteVolume
DeleteVolume(p, r) ==
    Enter(p, "DeleteVolume", r, DeleteVolumeChecks(r), NoLoc, "GetDiskByID")

\* controller.go:139-144
DeleteVolume_GetDiskByID(p) ==
    /\ At(p, "DeleteVolume", "GetDiskByID")
    /\ \E o \in GetDiskByID(disks, req[p].volumeId) :
        /\ Log(p, Call("GetDiskByID", "", req[p].volumeId, "", 0, "", o))
        /\ IF DeleteVolumeNotFound(o)
           THEN Return(p, Status(OK))
           ELSE Goto(p, "DeleteDisk")
    /\ UNCHANGED <<store, active, op, req, loc, prev, overlaps, startup>>

\* controller.go:146-150
DeleteVolume_DeleteDisk(p) ==
    /\ At(p, "DeleteVolume", "DeleteDisk")
    /\ \E o \in DeleteDisk(disks, attached, req[p].volumeId) :
        /\ disks' = o.disks
        /\ attached' = o.attached
        /\ Log(p, Call("DeleteDisk", "", req[p].volumeId, "", 0, "", o))
        /\ IF o.err # ErrNil
           THEN Return(p, Status(Internal))
           ELSE Return(p, Status(OK))
    /\ UNCHANGED <<nextId, active, op, req, loc, prev, overlaps, startup>>

\* controller.go:153  ControllerPublishVolume
ControllerPublishVolume(p, r) ==
    Enter(p, "ControllerPublishVolume", r, ControllerPublishVolumeChecks(r),
          NoLoc, "GetPVMInstanceByID")

\* controller.go:178-180
ControllerPublishVolume_GetPVMInstanceByID(p) ==
    /\ At(p, "ControllerPublishVolume", "GetPVMInstanceByID")
    /\ \E o \in GetPVMInstanceByID(req[p].nodeId) :
        /\ Log(p, Call("GetPVMInstanceByID", "", 0, req[p].nodeId, 0, "", o))
        /\ IF o.err # ErrNil
           THEN Return(p, Status(NotFound))
           ELSE Goto(p, "GetDiskByID")
    /\ UNCHANGED <<store, active, op, req, loc, prev, overlaps, startup>>

\* controller.go:182-191
ControllerPublishVolume_GetDiskByID(p) ==
    /\ At(p, "ControllerPublishVolume", "GetDiskByID")
    /\ \E o \in GetDiskByID(disks, req[p].volumeId) :
        /\ Log(p, Call("GetDiskByID", "", req[p].volumeId, "", 0, "", o))
        /\ IF o.err # ErrNil
           THEN /\ Return(p, Status(PublishGetDiskErrCode(o.err)))
                /\ UNCHANGED loc
           ELSE /\ Goto(p, "IsAttached")
                /\ loc' = [loc EXCEPT ![p].wwn = WWN(o.disk.id)]
    /\ UNCHANGED <<store, active, op, req, prev, overlaps, startup>>

\* controller.go:193-197
ControllerPublishVolume_IsAttached(p) ==
    /\ At(p, "ControllerPublishVolume", "IsAttached")
    /\ \E o \in IsAttached(attached, req[p].volumeId, req[p].nodeId) :
        /\ Log(p, Call("IsAttached", "", req[p].volumeId, req[p].nodeId, 0, "", o))
        /\ IF PublishAttached(o)
           THEN Return(p, [Status(OK) EXCEPT !.wwn = loc[p].wwn])
           ELSE Goto(p, "AttachDisk")
    /\ UNCHANGED <<store, active, op, req, loc, prev, overlaps, startup>>

\* controller.go:199-208
ControllerPublishVolume_AttachDisk(p) ==
    /\ At(p, "ControllerPublishVolume", "AttachDisk")
    /\ \E o \in AttachDisk(disks, attached, req[p].volumeId, req[p].nodeId) :
        /\ attached' = o.attached
        /\ Log(p, Call("AttachDisk", "", req[p].volumeId, req[p].nodeId, 0, "", o))
        /\ IF o.err # ErrNil
           THEN Return(p, Status(AttachDiskErrCode(o.err)))
           ELSE Return(p, [Status(OK) EXCEPT !.wwn = loc[p].wwn])
    /\ UNCHANGED <<disks, nextId, active, op, req, loc, prev, overlaps, startup>>

\* controller.go:211  ControllerUnpublishVolume
ControllerUnpublishVolume(p, r) ==
    Enter(p, "ControllerUnpublishVolume", r, ControllerUnpublishVolumeChecks(r),
          NoLoc, "GetDiskByID")

\* controller.go:223-228
ControllerUnpublishVolume_GetDiskByID(p) ==
    /\ At(p, "ControllerUnpublishVolume", "GetDiskByID")
    /\ \E o \in GetDiskByID(disks, req[p].volumeId) :
        /\ Log(p, Call("GetDiskByID", "", req[p].volumeId, "", 0, "", o))
        /\ IF UnpublishVolumeNotFound(o)
           THEN Return(p, Status(OK))
           ELSE Goto(p, "IsAttached")
    /\ UNCHANGED <<store, active, op, req, loc, prev, overlaps, startup>>

\* controller.go:230-233
ControllerUnpublishVolume_IsAttached(p) ==
    /\ At(p, "ControllerUnpublishVolume", "IsAttached")
    /\ \E o \in IsAttached(attached, req[p].volumeId, req[p].nodeId) :
        /\ Log(p, Call("IsAttached", "", req[p].volumeId, req[p].nodeId, 0, "", o))
        /\ IF UnpublishNotAttached(o)
           THEN Return(p, Status(OK))
           ELSE Goto(p, "DetachDisk")
    /\ UNCHANGED <<store, active, op, req, loc, prev, overlaps, startup>>

\* controller.go:235-240
ControllerUnpublishVolume_DetachDisk(p) ==
    /\ At(p, "ControllerUnpublishVolume", "DetachDisk")
    /\ \E o \in DetachDisk(attached, req[p].volumeId, req[p].nodeId) :
        /\ attached' = o.attached
        /\ Log(p, Call("DetachDisk", "", req[p].volumeId, req[p].nodeId, 0, "", o))
        /\ IF o.err # ErrNil
           THEN Return(p, Status(Internal))
           ELSE Return(p, Status(OK))
    /\ UNCHANGED <<disks, nextId, active, op, req, loc, prev, overlaps, startup>>

\* controller.go:269  ValidateVolumeCapabilities
ValidateVolumeCapabilities(p, r) ==
    Enter(p, "ValidateVolumeCapabilities", r, ValidateVolumeCapabilitiesChecks(r),
          NoLoc, "GetDiskByID")

\* controller.go:281-294
ValidateVolumeCapabilities_GetDiskByID(p) ==
    /\ At(p, "ValidateVolumeCapabilities", "GetDiskByID")
    /\ \E o \in GetDiskByID(disks, req[p].volumeId) :
        /\ Log(p, Call("GetDiskByID", "", req[p].volumeId, "", 0, "", o))
        /\ IF o.err # ErrNil
           THEN Return(p, Status(IF o.err = ErrNotFound THEN NotFound ELSE Internal))
           ELSE IF isValidVolumeCapabilities(req[p].caps)
                THEN Return(p, [Status(OK) EXCEPT !.hasConfirmed = TRUE,
                                                  !.confirmed = req[p].caps])
                ELSE Return(p, Status(OK))
    /\ UNCHANGED <<store, active, op, req, loc, prev, overlaps, startup>>

\* controller.go:297  ControllerExpandVolume
ControllerExpandVolume(p, r) ==
    Enter(p, "ControllerExpandVolume", r, ControllerExpandVolumeChecks(r).code,
          ControllerExpandVolumeChecks(r).loc, "ResizeDisk")

\* controller.go:315-323
ControllerExpandVolume_ResizeDisk(p) ==
    /\ At(p, "ControllerExpandVolume", "ResizeDisk")
    /\ \E o \in ResizeDisk(disks, req[p].volumeId, loc[p].volSizeBytes) :
        /\ disks' = o.disks
        /\ Log(p, Call("ResizeDisk", "", req[p].volumeId, "", loc[p].volSizeBytes, "", o))
        /\ IF o.err # ErrNil
           THEN Return(p, Status(Internal))
           ELSE Return(p, ControllerExpandVolumeResponse(o.gib))
    /\ UNCHANGED <<attached, nextId, active, op, req, loc, prev, overlaps, startup>>

\* ------------------------------------------------------------------------
\* Specifications
\* ------------------------------------------------------------------------
\* an empty disk store and no call yet
InitStore ==
    /\ disks = {}
    /\ attached = {}
    /\ nextId = 1
    /\ pc = [p \in Procs |-> "idle"]
    /\ op = [p \in Procs |-> "none"]
    /\ req = [p \in Procs |-> NoReq]
    /\ loc = [p \in Procs |-> NoLoc]
    /\ calls = [p \in Procs |-> <<>>]
    /\ ret = [p \in Procs |-> NoRet]
    /\ prev = [p \in Procs |-> NoPrev]
    /\ overlaps = [p \in Procs |-> {}]

\* the provider ID has not been read
InitStartup == providerID = <<>> /\ tokenized = NotTokenized

\* one caller, one call after the other
Init == InitStore /\ InitStartup /\ active = {"p1"}

\* concurrent callers
InitConcurrent == InitStore /\ InitStartup /\ active = Procs

Next ==
    \E p \in Procs :
        \/ \E r \in Arrivals(p, "CreateVolume", CreateReqs) : CreateVolume(p, r)
        \/ CreateVolume_CreateDisk(p)
        \/ \E r \in Arrivals(p, "DeleteVolume", DeleteReqs) : DeleteVolume(p, r)
        \/ DeleteVolume_GetDiskByID(p)
        \/ DeleteVolume_DeleteDisk(p)
        \/ \E r \in Arrivals(p, "ControllerPublishVolume", PublishReqs) : ControllerPublishVolume(p, r)
        \/ ControllerPublishVolume_GetPVMInstanceByID(p)
        \/ ControllerPublishVolume_GetDiskByID(p)
        \/ ControllerPublishVolume_IsAttached(p)
        \/ ControllerPublishVolume_AttachDisk(p)
        \/ \E r \in Arrivals(p, "ControllerUnpublishVolume", UnpublishReqs) : ControllerUnpublishVolume(p, r)
        \/ ControllerUnpublishVolume_GetDiskByID(p)
        \/ ControllerUnpublishVolume_IsAttached(p)
        \/ ControllerUnpublishVolume_DetachDisk(p)
        \/ \E r \in Arrivals(p, "ValidateVolumeCapabilities", ValidateReqs) : ValidateVolumeCapabilities(p, r)
        \/ ValidateVolumeCapabilities_GetDiskByID(p)
        \/ \E r \in Arrivals(p, "ControllerExpandVolume", ExpandReqs) : ControllerExpandVolume(p, r)
        \/ ControllerExpandVolume_ResizeDisk(p)
        \/ Forget(p)

Spec == Init /\ [][Next]_vars

SpecConcurrent == InitConcurrent /\ [][Next]_vars

\* the provider IDs of the model: every string of at most MaxIDLen
\* characters
ProviderIDs == UNION {[1..n -> Chars] : n \in 0..MaxIDLen}

\* the driver starts on a node with any provider ID; no caller yet
InitTokenize ==
    /\ InitStore
    /\ active = {}
    /\ providerID \in ProviderIDs
    /\ tokenized = NotTokenized

\* metadata.go:62  the call of TokenizeProviderID at startup
Tokenize ==
    /\ ~tokenized.called
    /\ tokenized' = [called |-> TRUE,
                     metadata |-> TokenizeProviderID(providerID).metadata,
                     err |-> TokenizeProviderID(providerID).err]
    /\ UNCHANGED <<store, active, pc, op, req, loc, calls, ret, prev, overlaps,
                   providerID>>

NextTokenize == Tokenize

SpecTokenize == InitTokenize /\ [][NextTokenize]_vars

\* ------------------------------------------------------------------------
\* Properties
\* ------------------------------------------------------------------------
\* the call of operation o at process p has returned
Done(p, o) == p \in active /\ pc[p] = "done" /\ op[p] = o

\* no remote call in the log cs failed for reasons of its own
NoFault(cs) == \A i \in 1..Len(cs) : ~cs[i].fault

\* the log cs holds a call of fn
Issued(cs, fn) == \E i \in 1..Len(cs) : cs[i].fn = fn

\* the call at p repeats, with the same request, the call of the same
\* operation that returned success right before it
Repeats(p) ==
    /\ prev[p].op = op[p]
    /\ prev[p].req = req[p]
    /\ prev[p].ret.code = OK

\* the nodes the disk store has volume v attached to
AttachedTo(v) == {n \in NodeIDs : <<v, n>> \in attached}

\* C1: a CreateVolume that repeats a successful CreateVolume (same name,
\* size, one type at most, capabilities; no delete in between), and whose
\* remote call does not fail of its own, succeeds with the volume ID of the
\* first, and the disk store then holds exactly one disk of that name, the
\* one with that ID.
C1_CreateIdempotent ==
    \A p \in Procs :
        (/\ Done(p, "CreateVolume")
         /\ Repeats(p)
         /\ Cardinality(req[p].params) <= 1
         /\ NoFault(calls[p]))
        => /\ ret[p].code = OK
           /\ ret[p].volumeId = prev[p].ret.volumeId
           /\ ret[p].capacityBytes = prev[p].ret.capacityBytes
           /\ Cardinality(DisksByName(disks, req[p].name)) = 1
           /\ \A d \in DisksByName(disks, req[p].name) : d.id = ret[p].volumeId

\* a repeated create of a size that needs rounding up has returned
C1_Witness ==
    /\ Done("p1", "CreateVolume")
    /\ Repeats("p1")
    /\ req["p1"].hasRange /\ req["p1"].required = 1
    /\ req["p1"].params = {<<"type", "tier1">>}
    /\ NoFault(calls["p1"])
    /\ ret["p1"].code = OK

\* C2: the remote call of a CreateVolume for a name the disk store holds
\* with another size or another type never returns success, returns
\* AlreadyExists unless the remote call fails of its own, and leaves the
\* disks as they are.
C2_Step ==
    \A p \in Procs :
        (/\ At(p, "CreateVolume", "CreateDisk")
         /\ pc'[p] = "done"
         /\ \E d \in DisksByName(disks, req[p].name) :
               \/ GiBToBytes(d.capGiB) # loc[p].volSizeBytes
               \/ d.type # loc[p].volumeType)
        => /\ ret'[p].code # OK
           /\ NoFault(calls'[p]) => ret'[p].code = AlreadyExists
           /\ disks' = disks

C2_CreateConflict == [][C2_Step]_vars

\* a create of an existing name with another size has returned
C2_Witness ==
    /\ Done("p1", "CreateVolume")
    /\ ret["p1"].code = AlreadyExists
    /\ \E d \in DisksByName(disks, req["p1"].name) :
          GiBToBytes(d.capGiB) # loc["p1"].volSizeBytes /\ d.type = loc["p1"].volumeType

C4_PublishIdempotent ==
    \A p \in Procs :
        (/\ Done(p, "ControllerPublishVolume")
         /\ Repeats(p)
         /\ NoFault(calls[p]))
        => /\ ret[p].code = OK
           /\ ret[p].wwn = prev[p].ret.wwn
           /\ ret[p].wwn = WWN(req[p].volumeId)
           /\ ~Issued(calls[p], "AttachDisk")

\* a repeated publish has returned, the first of which attached the disk
C4_Witness ==
    /\ Done("p1", "ControllerPublishVolume")
    /\ Repeats("p1")
    /\ Issued(prev["p1"].calls, "AttachDisk")
    /\ NoFault(calls["p1"])
    /\ ret["p1"].code = OK
    /\ <<req["p1"].volumeId, req["p1"].nodeId>> \in attached

\* the log cs holds a call of fn that the disk store answered without error
Succeeded(cs, fn) == \E i \in 1..Len(cs) : cs[i].fn = fn /\ cs[i].err = ErrNil

\* C5: while volume v is attached to node A, a ControllerPublishVolume of v
\* to another existing node B whose remote calls do not fail of their own
\* returns AlreadyExists, and its attach call changes no attachment; a
\* ControllerPublishVolume of v to B right after a ControllerUnpublishVolume
\* that detached v from A succeeds, and v is then attached to B only.
C5_Refused ==
    \A p \in Procs :
        (/\ Done(p, "ControllerPublishVolume")
         /\ req[p].caps = <<SINGLE_NODE_WRITER>>
         /\ req[p].nodeId \in Instances
         /\ AttachedTo(req[p].volumeId) \ {req[p].nodeId} # {}
         /\ NoFault(calls[p]))
        => ret[p].code = AlreadyExists

C5_Step ==
    \A p \in Procs :
        (/\ At(p, "ControllerPublishVolume", "AttachDisk")
         /\ pc'[p] = "done"
         /\ AttachedTo(req[p].volumeId) \ {req[p].nodeId} # {})
        => /\ attached' = attached
           /\ ret'[p].code # OK

C5_AfterUnpublish ==
    \A p \in Procs :
        (/\ Done(p, "ControllerPublishVolume")
         /\ prev[p].op = "ControllerUnpublishVolume"
         /\ prev[p].req.volumeId = req[p].volumeId
         /\ prev[p].ret.code = OK
         /\ Succeeded(prev[p].calls, "DetachDisk")
         /\ req[p].caps = <<SINGLE_NODE_WRITER>>
         /\ req[p].nodeId \in Instances
         /\ NoFault(calls[p]))
        => /\ ret[p].code = OK
           /\ AttachedTo(req[p].volumeId) = {req[p].nodeId}

C5_PublishConflict ==
    /\ [](C5_Refused /\ C5_AfterUnpublish)
    /\ [][C5_Step]_vars

\* a publish to another node has returned right after the unpublish that
\* detached the volume
C5_Witness ==
    /\ Done("p1", "ControllerPublishVolume")
    /\ prev["p1"].op = "ControllerUnpublishVolume"
    /\ Succeeded(prev["p1"].calls, "DetachDisk")
    /\ prev["p1"].req.nodeId # req["p1"].nodeId
    /\ ret["p1"].code = OK
    /\ AttachedTo(req["p1"].volumeId) = {req["p1"].nodeId}

\* C6: a DeleteVolume whose existence query answers not-found returns
\* success and makes no delete-disk call; a DeleteVolume that repeats a
\* successful one, and whose remote calls do not fail of their own, returns
\* success; when a DeleteVolume has returned success the volume is not in
\* the disk store.
C6_DeleteIdempotent ==
    \A p \in Procs :
        Done(p, "DeleteVolume") =>
            /\ (/\ Len(calls[p]) >= 1
                /\ calls[p][1].fn = "GetDiskByID"
                /\ calls[p][1].err = ErrNotFound)
               => (ret[p].code = OK /\ ~Issued(calls[p], "DeleteDisk"))
            /\ (Repeats(p) /\ NoFault(calls[p])) => ret[p].code = OK
            /\ ret[p].code = OK => DisksByID(disks, req[p].volumeId) = {}

\* a delete has returned right after the delete that removed the disk
C6_Witness ==
    /\ Done("p1", "DeleteVolume")
    /\ Repeats("p1")
    /\ Succeeded(prev["p1"].calls, "DeleteDisk")
    /\ ret["p1"].code = OK
    /\ ~Issued(calls["p1"], "DeleteDisk")

\* C7: a ControllerUnpublishVolume with a volume ID and a node ID returns
\* success, whether the volume is absent, present and not attached to the
\* node, or attached to it, unless its detach-disk call fails of its own.
C7_UnpublishSucceeds ==
    \A p \in Procs :
        (/\ Done(p, "ControllerUnpublishVolume")
         /\ req[p].volumeId # 0
         /\ req[p].nodeId # ""
         /\ ~\E i \in 1..Len(calls[p]) :
                calls[p][i].fn = "DetachDisk" /\ calls[p][i].fault)
        => ret[p].code = OK

\* an unpublish of an attached volume has returned
C7_Witness ==
    /\ Done("p1", "ControllerUnpublishVolume")
    /\ Succeeded(calls["p1"], "DetachDisk")
    /\ NoFault(calls["p1"])
    /\ ret["p1"].code = OK

\* C8: a ControllerUnpublishVolume whose is-attached query fails returns
\* success and makes no detach-disk call.
C8_UnpublishQueryFailure ==
    \A p \in Procs :
        (/\ Done(p, "ControllerUnpublishVolume")
         /\ \E i \in 1..Len(calls[p]) :
               calls[p][i].fn = "IsAttached" /\ calls[p][i].err # ErrNil)
        => /\ ret[p].code = OK
           /\ ~Issued(calls[p], "DetachDisk")

\* an unpublish of a volume that is attached to the node has returned
\* after its is-attached query failed
C8_Witness ==
    /\ Done("p1", "ControllerUnpublishVolume")
    /\ \E i \in 1..Len(calls["p1"]) :
          calls["p1"][i].fn = "IsAttached" /\ calls["p1"][i].err # ErrNil
    /\ <<req["p1"].volumeId, req["p1"].nodeId>> \in attached

\* the requests of operation o that C9 names
FailsValidation(o, r) ==
    \/ /\ o \in {"CreateVolume", "ControllerExpandVolume"}
       /\ r.hasRange /\ r.limit > 0 /\ RoundUpBytes(r.required) > r.limit
    \/ /\ o \in {"CreateVolume", "ControllerPublishVolume"}
       /\ \E i \in 1..Len(r.caps) : r.caps[i] # SINGLE_NODE_WRITER
    \/ o = "CreateVolume" /\ r.name = ""
    \/ o \notin {"CreateVolume", "none"} /\ r.volumeId = 0
    \/ /\ o \in {"ControllerPublishVolume", "ControllerUnpublishVolume"}
       /\ r.nodeId = ""

\* C9: a call whose rounded-up size exceeds a positive limit (CreateVolume,
\* ControllerExpandVolume), that asks for a capability other than
\* single-node-writer (CreateVolume, ControllerPublishVolume) or that lacks
\* its name, volume ID or node ID returns InvalidArgument, has made no
\* remote call, and leaves the disk store as it is.
C9_Rejected ==
    \A p \in Procs :
        (p \in active /\ FailsValidation(op[p], req[p]))
        => /\ pc[p] = "done"
           /\ ret[p].code = InvalidArgument
           /\ calls[p] = <<>>

C9_Step ==
    \A p \in Procs :
        (/\ FailsValidation(op'[p], req'[p])
         /\ <<pc[p], op[p], req[p], prev[p]>> # <<pc'[p], op'[p], req'[p], prev'[p]>>)
        => UNCHANGED store

C9_ValidationFirst == []C9_Rejected /\ [][C9_Step]_vars

\* an expand beyond its limit has been rejected while the volume exists
C9_Witness ==
    /\ Done("p1", "ControllerExpandVolume")
    /\ req["p1"].required = 3 /\ req["p1"].limit = 2
    /\ DisksByID(disks, req["p1"].volumeId) # {}
    /\ ret["p1"].code = InvalidArgument

\* C10: every create-disk call of a CreateVolume without a capacity range or
\* with requiredBytes = 0 asks for the default volume size.
C10_DefaultSize ==
    \A p \in Procs :
        (op[p] = "CreateVolume" /\ (~req[p].hasRange \/ req[p].required = 0))
        => \A i \in 1..Len(calls[p]) :
              calls[p][i].fn = "CreateDisk" => calls[p][i].bytes = DefaultVolumeSize

\* C11: every ControllerExpandVolume that has returned success answers a
\* new capacity of at least the requested size rounded up to the allocation
\* unit, and answers that the node has to expand the file system.
C11_ExpandCapacity ==
    \A p \in Procs :
        (Done(p, "ControllerExpandVolume") /\ ret[p].code = OK)
        => /\ ret[p].capacityBytes >= RoundUpBytes(req[p].required)
           /\ ret[p].capacityBytes >= req[p].required
           /\ ret[p].nodeExpansionRequired

\* an expand to a size that needs rounding up has grown the volume
C11_Witness ==
    /\ Done("p1", "ControllerExpandVolume")
    /\ ret["p1"].code = OK
    /\ req["p1"].required = 3
    /\ ret["p1"].capacityBytes = 4
    /\ ret["p1"].nodeExpansionRequired
    /\ \E d \in DisksByID(disks, req["p1"].volumeId) : GiBToBytes(d.capGiB) = 4

\* C12: no step lowers the capacity of a disk that stays in the disk store;
\* a step that changes it is the resize-disk call of a ControllerExpandVolume
\* of that volume; and a ControllerExpandVolume that asks for less than the
\* disk has (requiredBytes = 0 included) leaves the disk as it is.
C12_Step ==
    /\ \A d \in disks : \A e \in disks' :
          e.id = d.id =>
            /\ e.capGiB >= d.capGiB
            /\ e.capGiB # d.capGiB =>
                  \E p \in Procs :
                      /\ At(p, "ControllerExpandVolume", "ResizeDisk")
                      /\ pc'[p] = "done"
                      /\ req[p].volumeId = d.id
    /\ \A p \in Procs :
          (At(p, "ControllerExpandVolume", "ResizeDisk") /\ pc'[p] = "done")
          => \A d \in DisksByID(disks, req[p].volumeId) :
                RoundUpBytes(req[p].required) < GiBToBytes(d.capGiB) => d \in disks'

C13_Answer ==
    \A p \in Procs :
        (/\ Done(p, "ValidateVolumeCapabilities")
         /\ req[p].volumeId # 0
         /\ Len(req[p].caps) > 0
         /\ NoFault(calls[p]))
        => /\ Issued(calls[p], "GetDiskByID")
           /\ calls[p][1].err = ErrNotFound =>
                 (ret[p].code = NotFound /\ ~ret[p].hasConfirmed)
           /\ calls[p][1].err = ErrNil =>
                 /\ ret[p].code = OK
                 /\ ret[p].hasConfirmed <=>
                       \A i \in 1..Len(req[p].caps) :
                           req[p].caps[i] = SINGLE_NODE_WRITER
                 /\ ret[p].confirmed =
                       IF ret[p].hasConfirmed THEN req[p].caps ELSE <<>>

\* C13, the query: its answer is not-found exactly if the volume is not in
\* the disk store, and no step of a ValidateVolumeCapabilities changes the
\* disk store.
C13_Step ==
    \A p \in Procs :
        /\ (At(p, "ValidateVolumeCapabilities", "GetDiskByID") /\ pc'[p] = "done"
               /\ NoFault(calls'[p]))
            => (calls'[p][1].err = ErrNotFound
                  <=> DisksByID(disks', req[p].volumeId) = {})
        /\ (active = {p} /\ op'[p] = "ValidateVolumeCapabilities")
            => UNCHANGED store

C13_Validate == []C13_Answer /\ [][C13_Step]_vars

\* a validation of a supported and an unsupported capability of an existing
\* volume has returned without error and without confirmation
C13_Witness ==
    /\ Done("p1", "ValidateVolumeCapabilities")
    /\ DisksByID(disks, req["p1"].volumeId) # {}
    /\ req["p1"].caps = <<SINGLE_NODE_WRITER, MULTI_NODE_MULTI_WRITER>>
    /\ ret["p1"].code = OK
    /\ ~ret["p1"].hasConfirmed

\* the create-disk calls in the log cs were answered with a disk or with a
\* conflict, nothing else
OnlyConflicts(cs) ==
    \A i \in 1..Len(cs) :
        cs[i].err \in {ErrNil, ErrAlreadyExists, ErrIdempotentParameterMismatch}

\* C14: when two CreateVolume calls of the same name, size and type have run
\* at the same time, have both made their create-disk call, and the disk
\* store has answered each with a disk or with a conflict, both have returned
\* success with the same volume ID.
C14_ConcurrentCreate ==
    \A p, q \in Procs :
        (/\ p # q
         /\ Done(p, "CreateVolume") /\ Done(q, "CreateVolume")
         /\ q \in overlaps[p]
         /\ req[p].name = req[q].name
         /\ loc[p] = loc[q]
         /\ Issued(calls[p], "CreateDisk") /\ Issued(calls[q], "CreateDisk")
         /\ OnlyConflicts(calls[p]) /\ OnlyConflicts(calls[q]))
        => /\ ret[p].code = OK /\ ret[q].code = OK
           /\ ret[p].volumeId = ret[q].volumeId

\* the failed remote calls C15 lets an operation answer with success: the
\* existence query of a DeleteVolume or a ControllerUnpublishVolume that
\* answers not-found, and the attachment query of a ControllerUnpublishVolume
Excepted(o, c) ==
    \/ /\ o \in {"DeleteVolume", "ControllerUnpublishVolume"}
       /\ c.fn = "GetDiskByID"
       /\ c.err = ErrNotFound
    \/ o = "ControllerUnpublishVolume" /\ c.fn = "IsAttached"

\* C15: a call that has returned after one of its remote calls answered
\* with an error has returned an error, unless that remote call is the
\* existence query of a DeleteVolume or a ControllerUnpublishVolume answering
\* not-found or the attachment query of a ControllerUnpublishVolume.
C15_ErrorsClassified ==
    \A p \in Procs :
        (p \in active /\ pc[p] = "done")
        => \A i \in 1..Len(calls[p]) :
              (calls[p][i].err # ErrNil /\ ~Excepted(op[p], calls[p][i]))
              => ret[p].code \in {NotFound, AlreadyExists, Internal}

\* C16, the keys: a CreateVolume whose parameters hold a key other than
\* `type` has returned InvalidArgument without a remote call.
C16_OtherKey ==
    \A p \in Procs :
        (/\ p \in active
         /\ op[p] = "CreateVolume"
         /\ \E kv \in req[p].params : kv[1] # VolumeTypeKey)
        => /\ pc[p] = "done"
           /\ ret[p].code = InvalidArgument
           /\ calls[p] = <<>>

\* C16, the order of the keys: a CreateVolume that repeats the request of
\* the CreateVolume before it passes the type to create-disk that the one
\* before it passed.
C16_SameArguments ==
    \A p \in Procs :
        (/\ p \in active
         /\ op[p] = "CreateVolume"
         /\ prev[p].op = "CreateVolume"
         /\ prev[p].req = req[p])
        => \A i \in 1..Len(calls[p]) : \A j \in 1..Len(prev[p].calls) :
              (calls[p][i].fn = "CreateDisk" /\ prev[p].calls[j].fn = "CreateDisk")
              => /\ calls[p][i].type = prev[p].calls[j].type
                 /\ calls[p][i].bytes = prev[p].calls[j].bytes
                 /\ calls[p][i].name = prev[p].calls[j].name

\* C16: CreateVolume accepts the one parameter key `type`, any other key
\* makes it return InvalidArgument before any remote call, and the same
\* request always passes the same type to create-disk, whatever the order
\* the keys are visited in.
C16_TypeParameter == C16_OtherKey /\ C16_SameArguments

\* the positions of the separators in the provider ID
Slashes == {i \in 1..Len(providerID) : providerID[i] = "/"}

\* the position of the k-th separator, 0 for k = 0 and one past the end of
\* the provider ID for the separator after the last
SlashAt(k) ==
    IF k = 0 THEN 0
    ELSE IF k > Cardinality(Slashes) THEN Len(providerID) + 1
    ELSE CHOOSE i \in Slashes : Cardinality({j \in Slashes : j <= i}) = k

\* the k-th part of the provider ID: what stands between the separators
\* k - 1 and k
Part(k) == SubSeq(providerID, SlashAt(k - 1) + 1, SlashAt(k) - 1)

\* C17: TokenizeProviderID returns without error exactly if the provider ID
\* has five separators "/" (six parts) and its parts 3 to 6 are not empty;
\* it then returns the Metadata whose region, zone, cloudInstanceId and
\* pvmInstanceId are the parts 3, 4, 5 and 6; with an error it returns no
\* Metadata.
C17_Tokenize ==
    tokenized.called =>
        /\ tokenized.err = "nil" <=>
              /\ Cardinality(Slashes) = 5
              /\ \A k \in 3..6 : Part(k) # <<>>
        /\ tokenized.err = "nil" =>
              tokenized.metadata = {Metadata(Part(3), Part(4), Part(5), Part(6))}
        /\ tokenized.err # "nil" => tokenized.metadata = {}

\* the provider ID a://a/b/a/b has been tokenized
C17_Witness ==
    /\ tokenized.called
    /\ providerID = <<"a", "/", "/", "a", "/", "b", "/", "a", "/", "b">>
    /\ tokenized.err = "nil"
    /\ tokenized.metadata = {Metadata(<<"a">>, <<"b">>, <<"a">>, <<"b">>)}

\* C18: a ControllerPublishVolume with a volume ID, a node ID and the
\* supported capability asks for the node first and for the volume second.
\* When it has returned: if the node does not exist it has returned
\* NotFound without asking for the volume; if the node query answered and
\* the volume query answered not-found (as it does, unless it fails, for a
\* volume that is absent) it has returned NotFound; if the volume query
\* failed in another way it has returned Internal; and in all three cases
\* it has made no attach-disk call.
C18_Classified ==
    \A p \in Procs :
        (/\ Done(p, "ControllerPublishVolume")
         /\ ControllerPublishVolumeChecks(req[p]) = OK)
        => /\ Len(calls[p]) >= 1 /\ calls[p][1].fn = "GetPVMInstanceByID"
           /\ Len(calls[p]) >= 2 =>
                 (calls[p][1].err = ErrNil /\ calls[p][2].fn = "GetDiskByID")
           /\ req[p].nodeId \notin Instances =>
                 (ret[p].code = NotFound /\ Len(calls[p]) = 1)
           /\ (/\ Len(calls[p]) >= 2
               /\ active = {p}
               /\ DisksByID(disks, req[p].volumeId) = {}
               /\ ~calls[p][2].fault)
              => calls[p][2].err = ErrNotFound
           /\ (Len(calls[p]) >= 2 /\ calls[p][2].err = ErrNotFound) =>
                 (ret[p].code = NotFound /\ Len(calls[p]) = 2)
           /\ (Len(calls[p]) >= 2 /\ calls[p][2].err \notin {ErrNil, ErrNotFound}) =>
                 (ret[p].code = Internal /\ Len(calls[p]) = 2)

\* C18, the attachments: the node query and the volume query of a
\* ControllerPublishVolume change no attachment.
C18_Step ==
    \A p \in Procs :
        (/\ op[p] = "ControllerPublishVolume"
         /\ pc[p] \in {"GetPVMInstanceByID", "GetDiskByID"}
         /\ calls'[p] # calls[p])
        => attached' = attached

C18_PublishLookups == []C18_Classified /\ [][C18_Step]_vars

\* a publish of an absent volume to an existing node has returned NotFound
\* while another volume is attached to that node
C18_Witness ==
    /\ Done("p1", "ControllerPublishVolume")
    /\ req["p1"].nodeId \in Instances
    /\ DisksByID(disks, req["p1"].volumeId) = {}
    /\ Len(calls["p1"]) = 2
    /\ calls["p1"][2].err = ErrNotFound
    /\ ret["p1"].code = NotFound
    /\ \E v \in VolumeIDs : <<v, req["p1"].nodeId>> \in attached

\* the remote calls that change the disk store
Mutating == {"CreateDisk", "AttachDisk", "DetachDisk", "DeleteDisk", "ResizeDisk"}

\* C19: in every state, the remote calls a call of the controller has made
\* so far are of distinct kinds, at most one of them changes the disk store,
\* there are at most four, and a call that has not returned is about to
\* make a remote call of a kind it has not made; whether the remote calls
\* succeeded or failed.
C19_NoRetry ==
    \A p \in Procs :
        /\ \A i, j \in 1..Len(calls[p]) : i # j => calls[p][i].fn # calls[p][j].fn
        /\ Cardinality({i \in 1..Len(calls[p]) : calls[p][i].fn \in Mutating}) <= 1
        /\ Len(calls[p]) <= 4
        /\ pc[p] \notin {"idle", "done"} =>
              (~Issued(calls[p], pc[p]) /\ ~\E i \in 1..Len(calls[p]) :
                                              calls[p][i].fn \in Mutating)

\* a publish has returned after its four remote calls, the last of which,
\* the attach, failed after the attachment query had failed
C19_Witness ==
    /\ Done("p1", "ControllerPublishVolume")
    /\ Len(calls["p1"]) = 4
    /\ calls["p1"][3].fn = "IsAttached" /\ calls["p1"][3].fault
    /\ calls["p1"][4].fn = "AttachDisk" /\ calls["p1"][4].fault
    /\ ret["p1"].code = Internal

\* the volume of the request of p is absent or not attached to its node
Detached(p) ==
    \/ DisksByID(disks, req[p].volumeId) = {}
    \/ <<req[p].volumeId, req[p].nodeId>> \notin attached

\* C20: when a ControllerUnpublishVolume of volume v and node n has
\* returned success, and no other call runs, v is absent from the disk
\* store or not attached to n, whether its remote queries failed or not.
C20_UnpublishDetaches ==
    \A p \in Procs :
        (/\ Done(p, "ControllerUnpublishVolume")
         /\ active = {p}
         /\ ret[p].code = OK)
        => Detached(p)

\* C20, amended: when a ControllerUnpublishVolume of volume v and node n
\* has returned success, no other call runs, and its attachment query did
\* not fail, v is absent from the disk store or not attached to n, whether
\* its existence query failed or not.
C20_UnpublishDetachesUnlessQueryFails ==
    \A p \in Procs :
        (/\ Done(p, "ControllerUnpublishVolume")
         /\ active = {p}
         /\ ret[p].code = OK
         /\ ~\E i \in 1..Len(calls[p]) :
                calls[p][i].fn = "IsAttached" /\ calls[p][i].err # ErrNil)
        => Detached(p)

\* an unpublish whose existence query failed has detached the volume, which
\* is still in the disk store
C20_Witness ==
    /\ Done("p1", "ControllerUnpublishVolume")
    /\ ret["p1"].code = OK
    /\ Len(calls["p1"]) = 3
    /\ calls["p1"][1].fn = "GetDiskByID" /\ calls["p1"][1].fault
    /\ calls["p1"][2].fn = "IsAttached" /\ calls["p1"][2].err = ErrNil
    /\ Succeeded(calls["p1"], "DetachDisk")
    /\ DisksByID(disks, req["p1"].volumeId) # {}
    /\ <<req["p1"].volumeId, req["p1"].nodeId>> \notin attached

====
